---- MODULE Spec2Model ----
(***************************************************************************)
(* Model of the touch-sensor change notification of GoEV3                  *)
(* (Sensors/touch.go): the TouchSensor handle, the poller goroutine that   *)
(* StartListening spawns, the subscriber slice with Go's slice/append      *)
(* semantics (header + shared backing array), and the sendEvent            *)
(* goroutines that deliver on unbuffered channels.                         *)
(***************************************************************************)
EXTENDS Integers, Sequences, FiniteSets

\* ---------------------------------------------------------------- bounds
NumChans    == 2   \* subscriber endpoints 1..NumChans of the whole-API runs
NumRegChans == 3   \* subscriber endpoints of the registry-only runs
MaxVal      == 1   \* sensor values 0..MaxVal (value0 is a uint8)
MaxTraceVal == 2   \* sensor values of a recorded session
TraceLen    == 5   \* sensor reads of a recorded session
MaxPollers  == 2   \* poller goroutine slots
MaxArrays   == 3   \* backing arrays referenced at once
MaxCap      == 4   \* capacity of a backing array
MaxPending  == 2   \* sendEvent goroutines followed at once

Nil      == 0
Chans     == 1..NumChans
RegChans  == 1..NumRegChans
Endpoints == Chans \cup RegChans
Vals      == 0..MaxVal
TraceVals == 0..MaxTraceVal
Clients  == {1, 2}
Pollers  == 1..MaxPollers
NilHdr   == [arr |-> 0, len |-> 0, cap |-> 0]

VARIABLES
  isListening,  \* sensor.isListening
  hdr,          \* sensor.channels: the slice header [arr, len, cap]
  heap,         \* backing arrays: heap[a] is a sequence of length cap
  hw,           \* the value the value0 attribute file holds
  cpc, carg, cidx, cnew,   \* per client: position, argument ch, local i, new header
  cpre,         \* per client: the subscriber list when its running call began
  ppc, curVal, value, rng, ridx, \* per poller: position and locals
  spawned,      \* sendEvent goroutines started, not yet blocked on ch <- val, oldest first
  sendq,        \* per channel: goroutines blocked in ch <- val, in FIFO order
  outOfOrder,   \* some subscriber received a newer change before an older one
  nreads,       \* number of sensor reads recorded
  limit,        \* reads a recorded session makes; 0: nothing is recorded
  follow,       \* sendEvent goroutines the run follows at once
  ioFailed,     \* a read of value0 has failed
  plog,         \* per poller: the values it has read, oldest first
  sent,         \* per channel: values the current poller started deliveries of
  fanSent,      \* per poller: endpoints sent to in the running fan-out
  fanStable,    \* per poller: endpoints registered since the fan-out began
  panicked,     \* the process died of a runtime panic
  stopReads,    \* sensor reads made since the pending StopListening passed its test
  fanAt,        \* per poller: endpoints registered or being registered when the change was detected
  prevVal       \* curVal of the poller that exited last, -1 before any exit

vars == <<isListening, hdr, heap, hw, cpc, carg, cidx, cnew, cpre,
          ppc, curVal, value, rng, ridx, spawned, sendq, outOfOrder,
          nreads, limit, follow, ioFailed, plog, sent, fanSent, fanStable, panicked,
          stopReads, fanAt, prevVal>>

clientVars == <<cpc, carg, cidx, cnew, cpre>>
pollVars   == <<ppc, curVal, value, rng, ridx, plog, fanSent, fanStable>>
sendVars   == <<spawned, sendq, outOfOrder, sent>>
listVars   == <<hdr, heap>>
histVars   == <<stopReads, fanAt, prevVal>>

\* ------------------------------------------------------- slice semantics
\* The elements a slice header denotes: arr[0:len].
View(h) == [k \in 1..h.len |-> heap[h.arr][k]]

\* sensor.channels as the caller sees it
channels == View(hdr)

Range(s) == {s[k] : k \in 1..Len(s)}

\* indexOf: index (0-based) of the first entry equal to ch, -1 if none
indexOf(s, ch) ==
  IF \E k \in 1..Len(s) : s[k] = ch
  THEN (CHOOSE k \in 1..Len(s) : s[k] = ch /\ \A j \in 1..(k-1) : s[j] # ch) - 1
  ELSE -1

\* capacity append grows a full slice to when one element is added
GrowCap(cap) == IF cap = 0 THEN 1 ELSE 2 * cap

Zeros(n) == [k \in 1..n |-> Nil]

\* ------------------------------------------------------------------ Init
\* FindTouchSensor: isListening false, chStop unbuffered, channels nil.
InitCommon ==
  /\ isListening = FALSE
  /\ cpc = [c \in Clients |-> "idle"]
  /\ carg = [c \in Clients |-> Nil]
  /\ cidx = [c \in Clients |-> -1]
  /\ cnew = [c \in Clients |-> NilHdr]
  /\ cpre = [c \in Clients |-> <<>>]
  /\ ppc = [p \in Pollers |-> "none"]
  /\ curVal = [p \in Pollers |-> 0]
  /\ value = [p \in Pollers |-> 0]
  /\ rng = [p \in Pollers |-> NilHdr]
  /\ ridx = [p \in Pollers |-> 0]
  /\ spawned = <<>>
  /\ sendq = [ch \in Endpoints |-> <<>>]
  /\ outOfOrder = FALSE
  /\ nreads = 0
  /\ plog = [p \in Pollers |-> <<>>]
  /\ sent = [ch \in Endpoints |-> <<>>]
  /\ fanSent = [p \in Pollers |-> <<>>]
  /\ fanStable = [p \in Pollers |-> {}]
  /\ panicked = FALSE
  /\ ioFailed = FALSE
  /\ stopReads = 0
  /\ fanAt = [p \in Pollers |-> {}]
  /\ prevVal = -1

\* the handle FindTouchSensor returns
Fresh == hdr = NilHdr /\ heap = [a \in 1..MaxArrays |-> <<>>]

\* the handle after FindTouchSensor and Notify(1) have returned
Subscribed ==
  /\ hdr = [arr |-> 1, len |-> 1, cap |-> 1]
  /\ heap = [a \in 1..MaxArrays |-> IF a = 1 THEN <<1>> ELSE <<>>]

\* the handle after FindTouchSensor, Notify(1) and Notify(2) have returned
Subscribed2 ==
  /\ hdr = [arr |-> 2, len |-> 2, cap |-> 2]
  /\ heap = [a \in 1..MaxArrays |-> IF a = 2 THEN <<1, 2>> ELSE <<>>]

Init == InitCommon /\ Fresh /\ hw \in Vals /\ limit = 0 /\ follow = 0

\* ------------------------------------------------ backing-array storage
\* arrays some slice header still refers to
Live(h, r, n) == {h.arr} \cup {r[p].arr : p \in Pollers} \cup {n[c].arr : c \in Clients}

\* the garbage collector frees the arrays no header refers to
Collect(hp, live) == [a \in 1..MaxArrays |-> IF a \in live THEN hp[a] ELSE <<>>]

HasFree == \E a \in 1..MaxArrays : heap[a] = <<>>
FreeArr == CHOOSE a \in 1..MaxArrays : heap[a] = <<>> /\ \A b \in 1..(a-1) : heap[b] # <<>>

\* ------------------------------------------------------ client: Notify
\* positions of a client thread between two calls: "idle" at first, then
\* the way its last call returned
Rest == {"idle", "notify_present", "notify_added", "stopnotify_absent",
         "stopnotify_removed", "start_noop", "start_started", "stop_noop",
         "stop_stopped"}

Return(c, how) ==
  /\ cpc' = [cpc EXCEPT ![c] = how]
  /\ carg' = [carg EXCEPT ![c] = Nil]
  /\ cidx' = [cidx EXCEPT ![c] = -1]
  /\ cnew' = [cnew EXCEPT ![c] = NilHdr]
  /\ cpre' = [cpre EXCEPT ![c] = <<>>]

\* Notify without the indexOf test
NotifyCheck_NoTest(c, ch) ==
  /\ ~panicked /\ cpc[c] \in Rest
  /\ cpc' = [cpc EXCEPT ![c] = "notify_append"]
  /\ carg' = [carg EXCEPT ![c] = ch]
  /\ cpre' = [cpre EXCEPT ![c] = channels]
  /\ UNCHANGED <<cidx, cnew>>
  /\ UNCHANGED <<isListening, listVars, hw, pollVars, sendVars, nreads, limit, follow, histVars, ioFailed, panicked>>

\* Notify(ch), line 73: the indexOf test
NotifyCheck(c, ch) ==
  /\ ~panicked /\ cpc[c] \in Rest
  /\ IF indexOf(channels, ch) = -1
     THEN /\ cpc' = [cpc EXCEPT ![c] = "notify_append"]
          /\ carg' = [carg EXCEPT ![c] = ch]
          /\ cpre' = [cpre EXCEPT ![c] = channels]
          /\ UNCHANGED <<cidx, cnew>>
     ELSE Return(c, "notify_present")
  /\ UNCHANGED <<isListening, listVars, hw, pollVars, sendVars, nreads, limit, follow, histVars, ioFailed, panicked>>

\* Notify, line 74: append(sensor.channels, ch) evaluated; in place when
\* len < cap, else into a new array of the grown capacity.
NotifyAppend(c) ==
  /\ ~panicked /\ cpc[c] = "notify_append"
  /\ IF hdr.len < hdr.cap
     THEN /\ heap' = [heap EXCEPT ![hdr.arr][hdr.len + 1] = carg[c]]
          /\ cnew' = [cnew EXCEPT ![c] = [hdr EXCEPT !.len = hdr.len + 1]]
     ELSE /\ HasFree /\ GrowCap(hdr.cap) <= MaxCap
          /\ heap' = [heap EXCEPT ![FreeArr] =
                        channels \o <<carg[c]>> \o Zeros(GrowCap(hdr.cap) - hdr.len - 1)]
          /\ cnew' = [cnew EXCEPT ![c] =
                        [arr |-> FreeArr, len |-> hdr.len + 1, cap |-> GrowCap(hdr.cap)]]
  /\ cpc' = [cpc EXCEPT ![c] = "notify_store"]
  /\ UNCHANGED <<isListening, hdr, hw, carg, cidx, cpre, pollVars, sendVars,
                 nreads, limit, follow, histVars, ioFailed, panicked>>

\* Notify, line 74: the result assigned to sensor.channels
NotifyStore(c) ==
  /\ ~panicked /\ cpc[c] = "notify_store"
  /\ hdr' = cnew[c]
  /\ Return(c, "notify_added")
  /\ heap' = Collect(heap, Live(hdr', rng, cnew'))
  /\ UNCHANGED <<isListening, hw, pollVars, sendVars, nreads, limit, follow, histVars, ioFailed, panicked>>

\* ---------------------------------------------------- client: StopNotify
\* StopNotify(ch), line 80: the indexOf test
StopNotifyCheck(c, ch) ==
  /\ ~panicked /\ cpc[c] \in Rest
  /\ IF indexOf(channels, ch) # -1
     THEN /\ cpc' = [cpc EXCEPT ![c] = "stopnotify_move"]
          /\ carg' = [carg EXCEPT ![c] = ch]
          /\ cidx' = [cidx EXCEPT ![c] = indexOf(channels, ch)]
          /\ cpre' = [cpre EXCEPT ![c] = channels]
          /\ fanStable' = [p \in Pollers |-> fanStable[p] \ {ch}]
          /\ UNCHANGED cnew
     ELSE Return(c, "stopnotify_absent") /\ UNCHANGED fanStable
  /\ UNCHANGED <<isListening, listVars, hw, ppc, curVal, value, rng, ridx, plog, fanSent,
                 sendVars, nreads, limit, follow, histVars, ioFailed, panicked>>

\* StopNotify that shortens the slice without moving the entries after i
StopNotifyMove_NoMove(c) ==
  /\ ~panicked /\ cpc[c] = "stopnotify_move"
  /\ cnew' = [cnew EXCEPT ![c] = [hdr EXCEPT !.len = hdr.len - 1]]
  /\ cpc' = [cpc EXCEPT ![c] = "stopnotify_store"]
  /\ UNCHANGED <<carg, cidx, cpre, panicked>>
  /\ UNCHANGED <<isListening, listVars, hw, pollVars, sendVars, nreads, limit, follow, histVars, ioFailed>>

\* StopNotify, line 81: append(channels[:i], channels[i+1:]...) evaluated:
\* the entries after i move one place down inside the same backing array;
\* the slice expression channels[i+1:] panics when i+1 > len.
StopNotifyMove(c) ==
  /\ ~panicked /\ cpc[c] = "stopnotify_move"
  /\ IF cidx[c] + 1 > hdr.len
     THEN /\ panicked' = TRUE
          /\ UNCHANGED <<heap, clientVars>>
     ELSE /\ heap' = [heap EXCEPT ![hdr.arr] =
                        [k \in 1..hdr.cap |->
                           IF k > cidx[c] /\ k < hdr.len THEN heap[hdr.arr][k + 1]
                                                         ELSE heap[hdr.arr][k]]]
          /\ cnew' = [cnew EXCEPT ![c] = [hdr EXCEPT !.len = hdr.len - 1]]
          /\ cpc' = [cpc EXCEPT ![c] = "stopnotify_store"]
          /\ UNCHANGED <<carg, cidx, cpre, panicked>>
  /\ UNCHANGED <<isListening, hdr, hw, pollVars, sendVars, nreads, limit, follow, histVars, ioFailed>>

\* StopNotify, line 81: the result assigned to sensor.channels
StopNotifyStore(c) ==
  /\ ~panicked /\ cpc[c] = "stopnotify_store"
  /\ hdr' = cnew[c]
  /\ Return(c, "stopnotify_removed")
  /\ heap' = Collect(heap, Live(hdr', rng, cnew'))
  /\ UNCHANGED <<isListening, hw, pollVars, sendVars, nreads, limit, follow, histVars, ioFailed, panicked>>

\* ------------------------------------------------ client: StartListening
FreeSlot == CHOOSE p \in Pollers : ppc[p] = "none" /\ \A q \in 1..(p-1) : ppc[q] # "none"

\* StartListening without the isListening test
StartSpawn_NoTest(c) ==
  /\ ~panicked /\ cpc[c] \in Rest
  /\ \E p \in Pollers : ppc[p] = "none"
  /\ ppc' = [ppc EXCEPT ![FreeSlot] = "init"]
  /\ cpc' = [cpc EXCEPT ![c] = IF isListening THEN "start_noop" ELSE "start_set"]
  /\ UNCHANGED <<carg, cidx, cnew, cpre>>
  /\ UNCHANGED <<isListening, listVars, hw, curVal, value, rng, ridx, plog, fanSent,
                 fanStable, sendVars, nreads, limit, follow, histVars, ioFailed, panicked>>

\* StartListening, lines 36-59: the isListening test and the go statement
StartSpawn(c) ==
  /\ ~panicked /\ cpc[c] \in Rest
  /\ IF isListening
     THEN Return(c, "start_noop") /\ UNCHANGED ppc
     ELSE /\ \E p \in Pollers : ppc[p] = "none"
          /\ ppc' = [ppc EXCEPT ![FreeSlot] = "init"]
          /\ cpc' = [cpc EXCEPT ![c] = "start_set"]
          /\ UNCHANGED <<carg, cidx, cnew, cpre>>
  /\ UNCHANGED <<isListening, listVars, hw, curVal, value, rng, ridx, plog, fanSent,
                 fanStable, sendVars, nreads, limit, follow, histVars, ioFailed, panicked>>

\* StartListening that returns without setting isListening
StartSet_NoSet(c) ==
  /\ ~panicked /\ cpc[c] = "start_set"
  /\ Return(c, "start_started")
  /\ UNCHANGED <<isListening, listVars, hw, pollVars, sendVars, nreads, limit, follow, histVars, ioFailed, panicked>>

\* StartListening, line 60
StartSet(c) ==
  /\ ~panicked /\ cpc[c] = "start_set"
  /\ isListening' = TRUE
  /\ Return(c, "start_started")
  /\ UNCHANGED <<listVars, hw, pollVars, sendVars, nreads, limit, follow, histVars, ioFailed, panicked>>

\* ------------------------------------------------- client: StopListening
\* StopListening on a buffered chStop: the send does not wait for the poller
StopCheck_NoWait(c) ==
  /\ ~panicked /\ cpc[c] \in Rest
  /\ IF isListening
     THEN /\ cpc' = [cpc EXCEPT ![c] = "stop_set"]
          /\ UNCHANGED <<carg, cidx, cnew, cpre>>
     ELSE Return(c, "stop_noop")
  /\ UNCHANGED <<isListening, listVars, hw, pollVars, sendVars, nreads, limit, follow, histVars, ioFailed, panicked>>

\* StopListening without the isListening test: it always sends on chStop
StopCheck_NoTest(c) ==
  /\ ~panicked /\ cpc[c] \in Rest
  /\ cpc' = [cpc EXCEPT ![c] = "stop_send"]
  /\ UNCHANGED <<carg, cidx, cnew, cpre>>
  /\ stopReads' = 0
  /\ UNCHANGED <<isListening, listVars, hw, pollVars, sendVars, nreads, limit, follow,
                 fanAt, prevVal, ioFailed, panicked>>

\* StopListening, line 65: the isListening test
StopCheck(c) ==
  /\ ~panicked /\ cpc[c] \in Rest
  /\ IF isListening
     THEN /\ cpc' = [cpc EXCEPT ![c] = "stop_send"]
          /\ UNCHANGED <<carg, cidx, cnew, cpre>>
     ELSE Return(c, "stop_noop")
  /\ stopReads' = 0
  /\ UNCHANGED <<isListening, listVars, hw, pollVars, sendVars, nreads, limit, follow,
                 fanAt, prevVal, ioFailed, panicked>>

\* StopListening that also empties the subscriber list
StopSet_DropList(c) ==
  /\ ~panicked /\ cpc[c] = "stop_set"
  /\ isListening' = FALSE
  /\ Return(c, "stop_stopped")
  /\ stopReads' = 0
  /\ hdr' = NilHdr
  /\ heap' = Collect(heap, Live(hdr', rng, cnew'))
  /\ UNCHANGED <<hw, pollVars, sendVars, nreads, limit, follow, fanAt, prevVal,
                 ioFailed, panicked>>

\* StopListening, line 67, reached once a poller has received from chStop
StopSet(c) ==
  /\ ~panicked /\ cpc[c] = "stop_set"
  /\ isListening' = FALSE
  /\ Return(c, "stop_stopped")
  /\ stopReads' = 0
  /\ UNCHANGED <<listVars, hw, pollVars, sendVars, nreads, limit, follow, fanAt, prevVal,
                 ioFailed, panicked>>

\* ---------------------------------------------------------------- poller
Recording == limit > 0

\* a StopListening caller is blocked in chStop <- true
StopPending == \E c \in Clients : cpc[c] = "stop_send"

\* the count of reads made while a StopListening caller waits, after one more
CountRead == IF StopPending THEN stopReads + 1 ELSE stopReads

\* endpoints in the list, or that a Notify call in progress is adding
Registering ==
  Range(channels) \cup {carg[c] : c \in {d \in Clients : cpc[d] \in {"notify_append", "notify_store"}}}

\* a poller that starts from the value the poller before it saw last
PollInit_Stale(p) ==
  /\ ~panicked /\ ppc[p] = "init"
  /\ Recording => nreads < limit
  /\ nreads' = IF Recording THEN nreads + 1 ELSE nreads
  /\ plog' = IF Recording THEN [plog EXCEPT ![p] = <<hw>>] ELSE plog
  /\ sent' = [ch \in Endpoints |-> <<>>]
  /\ curVal' = [curVal EXCEPT ![p] = IF prevVal # -1 THEN prevVal ELSE hw]
  /\ ppc' = [ppc EXCEPT ![p] = "select"]
  /\ stopReads' = CountRead
  /\ UNCHANGED <<isListening, listVars, hw, clientVars, value, rng, ridx, fanSent,
                 fanStable, spawned, sendq, outOfOrder, limit, follow, fanAt, prevVal,
                 ioFailed, panicked>>

\* lines 40-42: findSensor and the baseline read of value0
PollInit(p) ==
  /\ ~panicked /\ ppc[p] = "init"
  /\ Recording => nreads < limit
  /\ nreads' = IF Recording THEN nreads + 1 ELSE nreads
  /\ plog' = IF Recording THEN [plog EXCEPT ![p] = <<hw>>] ELSE plog
  /\ sent' = [ch \in Endpoints |-> <<>>]
  /\ curVal' = [curVal EXCEPT ![p] = hw]
  /\ ppc' = [ppc EXCEPT ![p] = "select"]
  /\ stopReads' = CountRead
  /\ UNCHANGED <<isListening, listVars, hw, clientVars, value, rng, ridx, fanSent,
                 fanStable, spawned, sendq, outOfOrder, limit, follow, fanAt, prevVal,
                 ioFailed, panicked>>

\* lines 45-47: case <-sensor.chStop, taken when a StopListening caller is
\* blocked in chStop <- true; the poller returns.
PollStop(p, c) ==
  /\ ~panicked /\ ppc[p] = "select" /\ cpc[c] = "stop_send"
  /\ cpc' = [cpc EXCEPT ![c] = "stop_set"]
  /\ ppc' = [ppc EXCEPT ![p] = "none"]
  /\ curVal' = [curVal EXCEPT ![p] = 0]
  /\ plog' = [plog EXCEPT ![p] = <<>>]
  /\ prevVal' = curVal[p]
  /\ UNCHANGED <<isListening, listVars, hw, carg, cidx, cnew, cpre, value, rng, ridx,
                 fanSent, fanStable, sendVars, nreads, limit, follow, stopReads, fanAt,
                 ioFailed, panicked>>

\* a select that takes default although a sender waits on chStop
PollDefault_Ignore(p) ==
  /\ ~panicked /\ ppc[p] = "select"
  /\ ppc' = [ppc EXCEPT ![p] = "read"]
  /\ UNCHANGED <<isListening, listVars, hw, clientVars, curVal, value, rng, ridx, plog,
                 fanSent, fanStable, sendVars, nreads, limit, follow, histVars, ioFailed, panicked>>

\* line 48: default, taken when no sender waits on chStop
PollDefault(p) ==
  /\ ~panicked /\ ppc[p] = "select"
  /\ \A c \in Clients : cpc[c] # "stop_send"
  /\ ppc' = [ppc EXCEPT ![p] = "read"]
  /\ UNCHANGED <<isListening, listVars, hw, clientVars, curVal, value, rng, ridx, plog,
                 fanSent, fanStable, sendVars, nreads, limit, follow, histVars, ioFailed, panicked>>

\* endpoints a StopNotify call in progress is removing
Leaving == {carg[c] : c \in {d \in Clients : cpc[d] \in {"stopnotify_move", "stopnotify_store"}}}

\* lines 49-51: read value0, compare with curVal, and on a change evaluate
\* the range expression sensor.channels (the header, not the elements)
PollRead(p) ==
  /\ ~panicked /\ ppc[p] = "read"
  /\ Recording => nreads < limit
  /\ nreads' = IF Recording THEN nreads + 1 ELSE nreads
  /\ plog' = IF Recording THEN [plog EXCEPT ![p] = Append(plog[p], hw)] ELSE plog
  /\ IF hw # curVal[p]
     THEN /\ value' = [value EXCEPT ![p] = hw]
          /\ rng' = [rng EXCEPT ![p] = hdr]
          /\ ridx' = [ridx EXCEPT ![p] = 0]
          /\ fanSent' = [fanSent EXCEPT ![p] = <<>>]
          /\ fanStable' = [fanStable EXCEPT ![p] = Range(channels) \ Leaving]
          /\ fanAt' = [fanAt EXCEPT ![p] = Registering]
          /\ ppc' = [ppc EXCEPT ![p] = "fanout"]
     ELSE /\ ppc' = [ppc EXCEPT ![p] = "select"]
          /\ UNCHANGED <<value, rng, ridx, fanSent, fanStable, fanAt>>
  /\ stopReads' = CountRead
  /\ UNCHANGED <<isListening, listVars, hw, clientVars, curVal, sendVars, limit, follow,
                 prevVal, ioFailed, panicked>>

\* lines 49-51 racing with the assignment of line 74: the three words of
\* sensor.channels are not stored at once, so the range expression can see
\* the new array with the old length, or the old array with the new length;
\* the latter reads past the end of the old array and faults.
PollReadTorn(p, c) ==
  /\ ~panicked /\ ppc[p] = "read" /\ cpc[c] = "notify_store"
  /\ cnew[c].arr # hdr.arr
  /\ hw # curVal[p]
  /\ Recording => nreads < limit
  /\ nreads' = IF Recording THEN nreads + 1 ELSE nreads
  /\ plog' = IF Recording THEN [plog EXCEPT ![p] = Append(plog[p], hw)] ELSE plog
  /\ \/ /\ value' = [value EXCEPT ![p] = hw]
        /\ rng' = [rng EXCEPT ![p] = [cnew[c] EXCEPT !.len = hdr.len]]
        /\ ridx' = [ridx EXCEPT ![p] = 0]
        /\ fanSent' = [fanSent EXCEPT ![p] = <<>>]
        /\ fanStable' = [fanStable EXCEPT ![p] = Range(channels) \ Leaving]
        /\ fanAt' = [fanAt EXCEPT ![p] = Registering]
        /\ ppc' = [ppc EXCEPT ![p] = "fanout"]
        /\ UNCHANGED panicked
     \/ /\ panicked' = TRUE
        /\ UNCHANGED <<ppc, value, rng, ridx, fanSent, fanStable, fanAt>>
  /\ stopReads' = CountRead
  /\ UNCHANGED <<isListening, listVars, hw, clientVars, curVal, sendVars, limit, follow,
                 prevVal, ioFailed>>

\* what a failed read of value0 can give the caller of ReadUInt8Value, which
\* returns a uint8 and no error: the process is terminated, or a value comes
\* back
ReadFailOutcomes == {"fatal", "value"}

\* line 49 when the read of value0 fails: the loop has no error path
PollReadFail(p) ==
  /\ ~panicked /\ ppc[p] = "read"
  /\ ioFailed' = TRUE
  /\ \E o \in ReadFailOutcomes :
       \/ /\ o = "fatal"
          /\ panicked' = TRUE
          /\ UNCHANGED <<ppc, value, rng, ridx, fanSent, fanStable, fanAt>>
       \/ /\ o = "value"
          /\ UNCHANGED panicked
          /\ \E v \in Vals :
               IF v # curVal[p]
               THEN /\ value' = [value EXCEPT ![p] = v]
                    /\ rng' = [rng EXCEPT ![p] = hdr]
                    /\ ridx' = [ridx EXCEPT ![p] = 0]
                    /\ fanSent' = [fanSent EXCEPT ![p] = <<>>]
                    /\ fanStable' = [fanStable EXCEPT ![p] = Range(channels) \ Leaving]
                    /\ fanAt' = [fanAt EXCEPT ![p] = Registering]
                    /\ ppc' = [ppc EXCEPT ![p] = "fanout"]
               ELSE /\ ppc' = [ppc EXCEPT ![p] = "select"]
                    /\ UNCHANGED <<value, rng, ridx, fanSent, fanStable, fanAt>>
  /\ stopReads' = CountRead
  /\ UNCHANGED <<isListening, listVars, hw, clientVars, curVal, plog, sendVars, nreads,
                 limit, follow, prevVal>>

SumLen[n \in 0..Cardinality(Endpoints)] == IF n = 0 THEN 0 ELSE Len(sendq[n]) + SumLen[n - 1]

\* sendEvent goroutines that have not completed their send
InFlight == Len(spawned) + SumLen[Cardinality(Endpoints)]

\* the loop sends on the channel itself, which holds one value: the send
\* waits while the value sent before has not been received
PollSend_Sync(p) ==
  /\ ~panicked /\ ppc[p] = "fanout"
  /\ ridx[p] < rng[p].len
  /\ LET ch == heap[rng[p].arr][ridx[p] + 1]
     IN /\ sendq[ch] = <<>>
        /\ sendq' = [sendq EXCEPT ![ch] = <<[val |-> value[p], late |-> FALSE]>>]
        /\ sent' = IF Recording THEN [sent EXCEPT ![ch] = Append(sent[ch], value[p])] ELSE sent
        /\ fanSent' = [fanSent EXCEPT ![p] = Append(fanSent[p], ch)]
  /\ ridx' = [ridx EXCEPT ![p] = ridx[p] + 1]
  /\ UNCHANGED <<isListening, listVars, hw, clientVars, ppc, curVal, value, rng, plog,
                 fanStable, spawned, outOfOrder, nreads, limit, follow, histVars, ioFailed, panicked>>

\* lines 51-52: one iteration of the range loop: read element ridx of the
\* backing array and start go sendEvent(ch, value)
PollSend(p) ==
  /\ ~panicked /\ ppc[p] = "fanout"
  /\ ridx[p] < rng[p].len
  /\ LET ch == heap[rng[p].arr][ridx[p] + 1]
     IN /\ spawned' = IF InFlight < follow
                       THEN Append(spawned, [ch |-> ch, val |-> value[p]])
                       ELSE spawned
        /\ sent' = IF Recording THEN [sent EXCEPT ![ch] = Append(sent[ch], value[p])] ELSE sent
        /\ fanSent' = [fanSent EXCEPT ![p] = Append(fanSent[p], ch)]
  /\ ridx' = [ridx EXCEPT ![p] = ridx[p] + 1]
  /\ UNCHANGED <<isListening, listVars, hw, clientVars, ppc, curVal, value, rng, plog,
                 fanStable, sendq, outOfOrder, nreads, limit, follow, histVars, ioFailed, panicked>>

\* curVal is assigned only when the loop had a subscriber to send to
PollNext_SkipEmpty(p) ==
  /\ ~panicked /\ ppc[p] = "fanout"
  /\ ridx[p] >= rng[p].len
  /\ curVal' = [curVal EXCEPT ![p] = IF rng[p].len = 0 THEN curVal[p] ELSE value[p]]
  /\ ppc' = [ppc EXCEPT ![p] = "select"]
  /\ value' = [value EXCEPT ![p] = 0]
  /\ rng' = [rng EXCEPT ![p] = NilHdr]
  /\ ridx' = [ridx EXCEPT ![p] = 0]
  /\ fanSent' = [fanSent EXCEPT ![p] = <<>>]
  /\ fanStable' = [fanStable EXCEPT ![p] = {}]
  /\ fanAt' = [fanAt EXCEPT ![p] = {}]
  /\ heap' = Collect(heap, Live(hdr, rng', cnew))
  /\ UNCHANGED <<isListening, hdr, hw, clientVars, plog, sendVars, nreads, limit, follow,
                 stopReads, prevVal, ioFailed, panicked>>

\* the loop is over but curVal is left as it was
PollNext_KeepCurVal(p) ==
  /\ ~panicked /\ ppc[p] = "fanout"
  /\ ridx[p] >= rng[p].len
  /\ ppc' = [ppc EXCEPT ![p] = "select"]
  /\ value' = [value EXCEPT ![p] = 0]
  /\ rng' = [rng EXCEPT ![p] = NilHdr]
  /\ ridx' = [ridx EXCEPT ![p] = 0]
  /\ fanSent' = [fanSent EXCEPT ![p] = <<>>]
  /\ fanStable' = [fanStable EXCEPT ![p] = {}]
  /\ fanAt' = [fanAt EXCEPT ![p] = {}]
  /\ heap' = Collect(heap, Live(hdr, rng', cnew))
  /\ UNCHANGED <<isListening, hdr, hw, clientVars, curVal, plog, sendVars, nreads, limit,
                 follow, stopReads, prevVal, ioFailed, panicked>>

\* lines 54-57: the loop is over: curVal = value, sleep, next iteration
PollNext(p) ==
  /\ ~panicked /\ ppc[p] = "fanout"
  /\ ridx[p] >= rng[p].len
  /\ curVal' = [curVal EXCEPT ![p] = value[p]]
  /\ ppc' = [ppc EXCEPT ![p] = "select"]
  /\ value' = [value EXCEPT ![p] = 0]
  /\ rng' = [rng EXCEPT ![p] = NilHdr]
  /\ ridx' = [ridx EXCEPT ![p] = 0]
  /\ fanSent' = [fanSent EXCEPT ![p] = <<>>]
  /\ fanStable' = [fanStable EXCEPT ![p] = {}]
  /\ fanAt' = [fanAt EXCEPT ![p] = {}]
  /\ heap' = Collect(heap, Live(hdr, rng', cnew))
  /\ UNCHANGED <<isListening, hdr, hw, clientVars, plog, sendVars, nreads, limit, follow,
                 stopReads, prevVal, ioFailed, panicked>>

\* ------------------------------------------------------------- sendEvent
Remove(s, i) == [k \in 1..(Len(s) - 1) |-> IF k < i THEN s[k] ELSE s[k + 1]]

\* sendEvent, line 31: goroutine i reaches ch <- val and queues on ch; it is
\* late when a goroutine started before it for the same ch has not queued
SendBlock(i) ==
  /\ ~panicked /\ i \in 1..Len(spawned)
  /\ spawned' = Remove(spawned, i)
  /\ sendq' = [sendq EXCEPT ![spawned[i].ch] =
                 Append(@, [val |-> spawned[i].val,
                            late |-> \E j \in 1..(i-1) : spawned[j].ch = spawned[i].ch])]
  /\ UNCHANGED <<isListening, listVars, hw, clientVars, pollVars, outOfOrder, sent,
                 nreads, limit, follow, histVars, ioFailed, panicked>>

\* the subscriber receives from ch: the sender queued first completes
Receive(ch) ==
  /\ ~panicked /\ sendq[ch] # <<>>
  /\ outOfOrder' = (outOfOrder \/ Head(sendq[ch]).late)
  /\ sendq' = [sendq EXCEPT ![ch] = Tail(sendq[ch])]
  /\ UNCHANGED <<isListening, listVars, hw, clientVars, pollVars, spawned, sent,
                 nreads, limit, follow, histVars, ioFailed, panicked>>

\* ------------------------------------------------------------ the sensor
\* the hardware changes the value0 attribute
SensorChange(V) ==
  /\ ~panicked
  /\ \E v \in V \ {hw} : hw' = v
  /\ UNCHANGED <<isListening, listVars, clientVars, pollVars, sendVars, nreads, limit, follow, histVars, ioFailed, panicked>>

\* --------------------------------------------------------- specifications
RegistryStep(c, S) ==
  \/ \E ch \in S : NotifyCheck(c, ch)
  \/ NotifyAppend(c)
  \/ NotifyStore(c)
  \/ \E ch \in S : StopNotifyCheck(c, ch)
  \/ StopNotifyMove(c)
  \/ StopNotifyStore(c)

LifecycleStep(c) ==
  \/ StartSpawn(c)
  \/ StartSet(c)
  \/ StopCheck(c)
  \/ StopSet(c)

PollerStep(p) ==
  \/ PollInit(p)
  \/ \E c \in Clients : PollStop(p, c)
  \/ PollDefault(p)
  \/ PollRead(p)
  \/ PollSend(p)
  \/ PollNext(p)

Deliver ==
  \/ \E i \in 1..Len(spawned) : SendBlock(i)
  \/ \E ch \in Endpoints : Receive(ch)

\* one client thread using the whole API
Next ==
  \/ RegistryStep(1, Chans)
  \/ LifecycleStep(1)
  \/ \E p \in Pollers : PollerStep(p)
  \/ \E p \in Pollers : PollReadTorn(p, 1)
  \/ SensorChange(Vals)

Spec == Init /\ [][Next]_vars

\* one client thread that calls Notify and StopNotify
NextReg == RegistryStep(1, RegChans)

SpecReg == Init /\ [][NextReg]_vars

\* one client thread that calls StartListening and StopListening on a handle
\* with one subscriber, and the deliveries to that subscriber
InitLife == InitCommon /\ Subscribed /\ hw \in Vals /\ limit = 0 /\ follow = MaxPending

NextLife ==
  \/ LifecycleStep(1)
  \/ \E p \in Pollers : PollerStep(p)
  \/ Deliver
  \/ SensorChange(Vals)

SpecLife == InitLife /\ [][NextLife]_vars

\* a recorded session: one client thread calling StartListening and
\* StopListening on a handle with one subscriber, the sensor reads and the
\* deliveries started being recorded
InitTrace == InitCommon /\ Subscribed /\ hw \in TraceVals /\ limit = TraceLen /\ follow = 0

NextTrace ==
  \/ LifecycleStep(1)
  \/ \E p \in Pollers : PollerStep(p)
  \/ SensorChange(TraceVals)

SpecTrace == InitTrace /\ [][NextTrace]_vars

\* two client threads that call Notify and StopNotify
NextReg2 ==
  \/ RegistryStep(1, Chans)
  \/ RegistryStep(2, Chans)

SpecReg2 == Init /\ [][NextReg2]_vars

\* two client threads that call StartListening and StopListening on a handle
\* with one subscriber
InitLife2 == InitCommon /\ Subscribed /\ hw \in Vals /\ limit = 0 /\ follow = 0

NextLife2 ==
  \/ LifecycleStep(1)
  \/ LifecycleStep(2)
  \/ \E p \in Pollers : PollerStep(p)
  \/ SensorChange(Vals)

SpecLife2 == InitLife2 /\ [][NextLife2]_vars

\* one client thread, one subscriber, and reads of value0 that can fail
NextIO ==
  \/ LifecycleStep(1)
  \/ \E p \in Pollers : PollerStep(p)
  \/ \E p \in Pollers : PollReadFail(p)
  \/ SensorChange(Vals)

SpecIO == InitLife2 /\ [][NextIO]_vars

\* the endpoints other than the one registered first
Others == Chans \ {1}

\* one client thread that calls StartListening and StopListening on a handle
\* whose first subscriber stays registered, and Notify and StopNotify of the
\* other endpoints
NextPersist ==
  \/ LifecycleStep(1)
  \/ RegistryStep(1, Others)
  \/ \E p \in Pollers : PollerStep(p)
  \/ SensorChange(Vals)

SpecPersist == InitLife2 /\ [][NextPersist]_vars

\* one client thread that calls StartListening and StopListening on a handle
\* with two subscribers, the first of which never receives from its channel
InitSlow == InitCommon /\ Subscribed2 /\ hw \in Vals /\ limit = 0 /\ follow = MaxPending

NextSlow ==
  \/ LifecycleStep(1)
  \/ \E p \in Pollers : PollerStep(p)
  \/ \E i \in 1..Len(spawned) : SendBlock(i)
  \/ \E ch \in Others : Receive(ch)
  \/ SensorChange(Vals)

SpecSlow == InitSlow /\ [][NextSlow]_vars

\* the same with the scheduler running every poller goroutine that can run
FairSlow == SpecSlow /\ \A p \in Pollers : WF_vars(PollerStep(p))

\* one client thread that calls StartListening and StopListening on a fresh
\* handle, and Notify and StopNotify of one endpoint
NextEmpty ==
  \/ LifecycleStep(1)
  \/ RegistryStep(1, Chans \ Others)
  \/ \E p \in Pollers : PollerStep(p)
  \/ SensorChange(Vals)

SpecEmpty == Init /\ [][NextEmpty]_vars

\* ----------------------------------------------------------------- claims
LivePollers == {p \in Pollers : ppc[p] # "none"}

NoRepeat(s) == \A i, j \in 1..Len(s) : s[i] = s[j] => i = j

\* C1: with one client thread at most one poller that can still read the
\* sensor exists; after StartListening returned as a no-op on a Listening
\* handle exactly one poller runs, and a fan-out sends to no subscriber twice.
C1_OnePoller ==
  /\ Cardinality(LivePollers) <= 1
  /\ cpc[1] = "start_noop" => Cardinality(LivePollers) = 1
  /\ \A p \in Pollers : NoRepeat(fanSent[p])

\* a second StartListening has returned and the one poller has fanned a
\* change out to the subscriber
C1_Witness ==
  /\ cpc[1] = "start_noop"
  /\ \E p \in Pollers : ppc[p] = "fanout" /\ fanSent[p] = <<1>>

\* C2: once StopListening has returned on a Listening handle no poller is
\* left that could read the sensor value or the subscriber list or start a
\* delivery.
C2_StopJoinsPoller == cpc[1] = "stop_stopped" => LivePollers = {}

\* StopListening has returned after a poller had detected a change
C2_Witness == cpc[1] = "stop_stopped" /\ isListening = FALSE /\ Len(sendq[1]) > 0

\* the reads that differ from the read before them, in order
RECURSIVE Changes(_)
Changes(s) ==
  IF Len(s) <= 1 THEN <<>>
  ELSE LET front == SubSeq(s, 1, Len(s) - 1)
       IN IF s[Len(s)] # s[Len(s) - 1] THEN Append(Changes(front), s[Len(s)])
                                       ELSE Changes(front)

\* the poller is between two ticks: every read made has been handled
BetweenTicks(p) ==
  \/ ppc[p] \in {"select", "read"}
  \/ ppc[p] = "fanout" /\ ridx[p] = rng[p].len

\* C3: for the one subscriber registered before StartListening, the values
\* sent to it are exactly the poller's reads that differ from the read
\* before them, in order, one per change; nothing is sent elsewhere.
C3_SentAreChanges ==
  \A p \in Pollers : BetweenTicks(p) =>
     /\ sent[1] = Changes(plog[p])
     /\ \A ch \in Endpoints \ {1} : sent[ch] = <<>>

\* the reads were 0,0,1,1,2 and the subscriber was sent 1 then 2
C3_Witness ==
  \E p \in Pollers : BetweenTicks(p) /\ plog[p] = <<0, 0, 1, 1, 2>> /\ sent[1] = <<1, 2>>

\* C4: a subscriber never receives the value of a later change before the
\* value of an earlier change, however slowly it receives.
C4_DeliveredInOrder == ~outOfOrder

\* s without its entries equal to ch, the others in their order
Without(s, ch) == SelectSeq(s, LAMBDA x : x # ch)

\* C5: with one caller the subscriber list never holds an endpoint twice;
\* Notify of an endpoint already present leaves the list as it is, Notify of
\* an absent one appends it, and a StopNotify leaves its endpoint absent.
C5_NotifyIdempotent ==
  /\ [](cpc[1] \in Rest => NoRepeat(channels))
  /\ [][/\ (cpc[1] \in Rest /\ cpc'[1] = "notify_present") => channels' = channels
        /\ cpc[1] = "notify_store" => channels' = Append(cpre[1], carg[1])
        /\ cpc[1] = "stopnotify_store" => carg[1] \notin Range(channels')]_vars

\* Notify of an endpoint already in a list of three has returned
C5_Witness == cpc[1] = "notify_present" /\ Len(channels) = 3

\* C6: StopNotify(ch) of a present ch removes the one entry of ch and leaves
\* the other endpoints in their registration order; of an absent ch it
\* leaves the list as it is.
C6_StopNotifyFrame ==
  [][/\ cpc[1] = "stopnotify_store" =>
          /\ channels' = Without(cpre[1], carg[1])
          /\ Len(channels') = Len(cpre[1]) - 1
     /\ (cpc[1] \in Rest /\ cpc'[1] = "stopnotify_absent") => channels' = channels]_vars

\* the first of three endpoints was removed and the other two kept their order
C6_Witness == cpc[1] = "stopnotify_removed" /\ channels = <<2, 3>> /\ heap[hdr.arr][3] = 3

\* how often ch occurs in s
Count(s, ch) == Cardinality({k \in 1..Len(s) : s[k] = ch})

\* the range loop of poller p has visited every position
FanoutOver(p) == ppc[p] = "fanout" /\ ridx[p] >= rng[p].len

\* C7: a detected change is sent exactly once to every endpoint registered
\* for the whole fan-out and to no endpoint twice, also when Notify or
\* StopNotify of other endpoints runs during the loop.
C7_StableFanout ==
  \A p \in Pollers : FanoutOver(p) =>
     /\ NoRepeat(fanSent[p])
     /\ \A ch \in fanStable[p] : Count(fanSent[p], ch) = 1

AllAtRest == \A c \in Clients : cpc[c] \in Rest

\* an endpoint leaves the list only in a step of a StopNotify of it
LeavesByStopNotify ==
  \A ch \in Chans : (ch \in Range(channels) /\ ch \notin Range(channels')) =>
     \E c \in Clients : carg[c] = ch /\ cpc[c] \in {"stopnotify_move", "stopnotify_store"}

\* an endpoint enters the list only in the last step of a Notify of it
EntersByNotify ==
  \A ch \in Chans : (ch \notin Range(channels) /\ ch \in Range(channels')) =>
     \E c \in Clients : carg[c] = ch /\ cpc[c] = "notify_store"

\* C8: with several callers of Notify and StopNotify the list is the net
\* effect of the calls in some order: between calls no endpoint is in it
\* twice, no registration is lost (an endpoint leaves only by a StopNotify of
\* it), no removed endpoint comes back (an endpoint enters only by a Notify
\* of it), and no call panics.
C8_RegistryLinearizable ==
  /\ [](AllAtRest => NoRepeat(channels))
  /\ [](~panicked)
  /\ [][LeavesByStopNotify /\ EntersByNotify]_vars

\* C9: at most one poller is live under every interleaving of callers, also
\* for two StartListening calls that run concurrently on an Idle handle.
C9_OnePollerConcurrent == Cardinality(LivePollers) <= 1

\* C10: once a read of value0 has failed the poller has exited, the handle is
\* Idle and usable, and nothing is being delivered for the failed tick.
C10_ReadErrorStopsPoller ==
  ioFailed => (LivePollers = {} /\ ~isListening /\ ~panicked)

C12_NoPendingDelivery == cpc[1] = "stop_stopped" => InFlight = 0

\* positions of a client thread inside or just after StartListening or
\* StopListening
LifePos == {"start_noop", "start_set", "start_started", "stop_noop", "stop_send",
            "stop_set", "stop_stopped"}

\* C13: the steps of StartListening and StopListening leave the subscriber
\* list as it is; Notify and StopNotify take effect whether the handle is
\* Idle or Listening; and every change a poller detects, also a poller
\* started after a StopListening, is sent once to the endpoint registered
\* before the first StartListening.
C13_SubscriptionsPersist ==
  /\ [][(cpc'[1] # cpc[1] /\ cpc'[1] \in LifePos) => (hdr' = hdr /\ channels' = channels)]_vars
  /\ [][/\ cpc'[1] # cpc[1] /\ cpc'[1] = "notify_added" => channels' = Append(cpre[1], carg[1])
        /\ cpc'[1] # cpc[1] /\ cpc'[1] = "stopnotify_removed" =>
              channels' = Without(cpre[1], carg[1])]_vars
  /\ [](\A p \in Pollers : FanoutOver(p) => Count(fanSent[p], 1) = 1)

\* a poller started after a StopListening has sent a change to the endpoint
\* registered before the first start and to one registered since
C13_Witness ==
  /\ prevVal # -1 /\ isListening
  /\ \E p \in Pollers : FanoutOver(p) /\ fanSent[p] = <<1, 2>>

\* C14: a change is sent only to endpoints that were registered, or whose
\* Notify call had begun, when the poller detected it: an endpoint whose
\* Notify is called after the detection is never sent that value.
C14_NoPastValues ==
  [][\A p \in Pollers :
       (ppc[p] = "fanout" /\ ridx'[p] = ridx[p] + 1) =>
          heap[rng[p].arr][ridx[p] + 1] \in fanAt[p]]_vars

\* C15: with a subscriber that never receives, the poller still finishes
\* every fan-out and goes on to its next stop check and its next read, and
\* every fan-out has started the sends to the other subscribers.
C15_PollerNeverBlocked ==
  /\ \A p \in Pollers : (ppc[p] = "fanout") ~> (ppc[p] = "select")
  /\ \A p \in Pollers : (ppc[p] = "select") ~> (ppc[p] \in {"read", "none"})
  /\ [](\A p \in Pollers : FanoutOver(p) => fanSent[p] = <<1, 2>>)

\* two values wait for the subscriber that never receives and the poller is
\* at its next read
C15_Witness ==
  /\ Len(sendq[1]) = 2
  /\ \E p \in Pollers : ppc[p] = "read"

\* C16: StopListening called on an Idle handle returns at once as a no-op:
\* it does not wait on chStop and leaves isListening, the subscriber list,
\* the pollers and the pending deliveries as they are; no stop signal is
\* left behind, so after a StartListening has returned a poller runs until
\* a StopListening stops it.
C16_StopIdleNoOp ==
  /\ [][(cpc[1] \in Rest /\ ~isListening /\ cpc'[1] # cpc[1]
           /\ cpc'[1] \in {"stop_noop", "stop_send"}) =>
           /\ cpc'[1] = "stop_noop"
           /\ UNCHANGED <<isListening, hdr, heap, ppc, spawned, sendq>>]_vars
  /\ [](cpc[1] = "stop_noop" => (~isListening /\ LivePollers = {}))
  /\ [](cpc[1] = "start_started" => Cardinality(LivePollers) = 1)

\* StopListening has returned as a no-op on a handle stopped before
C16_Witness ==
  cpc[1] = "stop_noop" /\ prevVal # -1 /\ ~isListening /\ channels = <<1>>

\* the poller has made its baseline read
Running(p) == ppc[p] \notin {"none", "init"}

\* C17: a poller, also one started after a StopListening, takes its
\* baseline from a read of the sensor it makes itself; while its reads all
\* equal that baseline it sends nothing, whatever the poller before it saw
\* last, and the first value it sends differs from the baseline.
C17_FreshBaseline ==
  /\ [][\A p \in Pollers : (ppc[p] = "init" /\ ppc'[p] = "select") => curVal'[p] = hw]_vars
  /\ [](\A p \in Pollers : Running(p) =>
          /\ plog[p] # <<>>
          /\ sent[1] # <<>> => sent[1][1] # plog[p][1]
          /\ (\A k \in 1..Len(plog[p]) : plog[p][k] = plog[p][1]) => sent[1] = <<>>)

\* the poller before saw 0 last; the restarted poller read 1, 1, 2 and has
\* sent 2 only
C17_Witness ==
  /\ prevVal = 0
  /\ \E p \in Pollers : BetweenTicks(p) /\ plog[p] = <<1, 1, 2>> /\ sent[1] = <<2>>

\* C18: a read that differs from curVal is a detected change whether or not
\* the subscriber list is empty: the tick ends with curVal set to the value
\* read, so that an endpoint registered later is sent nothing while the
\* sensor keeps that value (a read equal to curVal starts no fan-out).
C18_EmptyListChangeRecorded ==
  /\ [][\A p \in Pollers :
          /\ (ppc[p] = "read" /\ ppc'[p] = "fanout") => (hw # curVal[p] /\ value'[p] = hw)
          /\ (ppc[p] = "read" /\ ppc'[p] = "select") => hw = curVal[p]
          /\ (ppc[p] = "fanout" /\ ppc'[p] = "select") => curVal'[p] = value[p]]_vars
  /\ [](\A p \in Pollers : ppc[p] = "fanout" => value[p] # curVal[p])

\* the change from 0 to 1 was detected while the list was empty, and the
\* endpoint has been registered since
C18_Witness ==
  /\ channels = <<1>> /\ cpc[1] = "notify_added"
  /\ \E p \in Pollers : FanoutOver(p) /\ rng[p].len = 0 /\ value[p] = 1 /\ curVal[p] = 0

\* C19: while the client is in no StartListening or StopListening call,
\* isListening is true exactly when a poller that has not taken a stop
\* signal exists, after any sequence of such calls.
C19_FlagMatchesPoller == cpc[1] \in Rest => (isListening <=> LivePollers # {})

\* a handle started again after a stop: the flag is set and a poller runs
C19_Witness ==
  cpc[1] = "start_started" /\ prevVal # -1 /\ isListening /\ Cardinality(LivePollers) = 1

\* C20: a StopListening caller that waits on chStop always has a live
\* poller to receive its signal, one that ran when the call was made; the
\* call is never left waiting with no poller, to block for ever or to stop
\* a poller that a later StartListening spawns.
C20_StopHasReceiver ==
  \A c \in Clients : cpc[c] = "stop_send" => LivePollers # {}

====
